---- MODULE Spec2Model ----
(***************************************************************************)
(* Model of client/DPReceive.c (BadVPN): the per-device peer registry, the *)
(* peer / sink / receiver lifecycle, and the receive handler               *)
(* receiver_recv_handler_send, which parses a dataproto frame and decides  *)
(* between local delivery, relaying and dropping.                          *)
(*                                                                         *)
(* A frame is modelled by the bytes the handler reads: its length, the     *)
(* flags byte, and the two-byte fields from_id, num_peer_ids and the       *)
(* destination id, each as the pair <<byte 0, byte 1>> in buffer order.    *)
(* The payload is the region (offset, length) of the buffer: the handler   *)
(* never looks at its content.                                             *)
(*                                                                         *)
(* A second part models ncd/modules/net_backend_wpa_supplicant.c: one      *)
(* module instance that runs wpa_supplicant, reads its output line by line *)
(* and reports Up, Down, error and death to the module framework.  Each    *)
(* part has its own specification (Spec, WpaSpec) and leaves the           *)
(* variables of the other alone.                                           *)
(***************************************************************************)
EXTENDS Integers, Sequences, FiniteSets, TLC

(* ------------------------------ bounds -------------------------------- *)

\* peer objects the orchestrating caller may have alive at once
MaxPeers == 2
\* receiver objects the caller may have alive at once
MaxReceivers == 1
\* sinks (DataProtoSink objects) the caller may attach
MaxSinks == 2
\* the largest device MTU passed to DPReceiveDevice_Init
MaxDeviceMtu == 1

(* ------------------------ protocol constants -------------------------- *)

\* sizeof(struct dataproto_header): flags (1), from_id (2), num_peer_ids (2)
HeaderSize == 5
\* sizeof(peerid_t) == sizeof(struct dataproto_peer_id)
PeerIdSize == 2
\* DATAPROTO_MAX_OVERHEAD: the header and one destination id
DATAPROTO_MAX_OVERHEAD == 7
\* DATAPROTO_FLAGS_RECEIVING_KEEPALIVES
DATAPROTO_FLAGS_RECEIVING_KEEPALIVES == 1

(* ----------------------------- input sets ----------------------------- *)

PeerSlots == 1..MaxPeers
RecvSlots == 1..MaxReceivers
Sinks == 1..MaxSinks
NULL == 0

\* byte values used in the two-byte id fields of the frames: the ids 0, 1, 256, 257
IdBytes == {0, 1}
WireIds == IdBytes \X IdBytes
\* peerid_t values the caller gives to peers, and to the device itself
PeerIdValues == {1, 256}
SelfIdValues == {1, 257}
\* flags bytes: bit 0 set, and bit 0 clear with another bit set
FlagValues == {1, 2}
DeviceMtus == {MaxDeviceMtu}
\* relay_flow_buffer_size (> 0) and relay_flow_inactivity_time of the device
RelayBufferSizes == {4}
RelayInactivityTimes == {9}
\* the FrameDeciderPeer the caller has made for a peer object, passed to DPReceivePeer_Init
DeciderOf(o) == o

VARIABLES
    big_endian,   \* the build: TRUE on a big-endian host (BADVPN_BIG_ENDIAN)
    device,       \* DPReceiveDevice
    peers,        \* DPReceivePeer objects, by slot
    peers_list,   \* device->peers_list: sequence of peer slots
    receivers,    \* DPReceiveReceiver objects, by slot: the peer, or NULL
    call          \* the most recent call of the receive handler and its effects

\* ncd/modules/net_backend_wpa_supplicant.c: one module instance
VARIABLES
    inst,         \* struct instance, or NoInstance before func_new and after instance_free
    backend,      \* the NCDModuleInst_Backend_* calls made for the instance, in order
    tried,        \* a trying event was printed since the last disconnected event
    pipe_call     \* the most recent callback of the instance and the calls it made

wpa_vars == <<inst, backend, tried, pipe_call>>

vars == <<big_endian, device, peers, peers_list, receivers, call, wpa_vars>>

\* no instance: the memory of struct instance is not allocated
NoInstance == [allocated |-> FALSE]
NoPipeCall == [fn |-> "none"]

\* the backend module is at rest
WpaIdle ==
    /\ inst = NoInstance
    /\ backend = <<>>
    /\ tried = FALSE
    /\ pipe_call = NoPipeCall

(* ----------------------------- byte order ----------------------------- *)

\* reading a uint16_t field of a packed struct: the host's byte order
HostRead16(b) == IF big_endian THEN 256 * b[1] + b[2] ELSE b[1] + 256 * b[2]

swap16(x) == (x % 256) * 256 + (x \div 256)

\* little-endian to host
ltoh16(x) == IF big_endian THEN swap16(x) ELSE x

ltoh8(x) == x

\* the value a two-byte little-endian field stands for on the wire
WireValue(b) == b[1] + 256 * b[2]

(* ------------------------------ frames -------------------------------- *)

NoBytes == <<0, 0>>

Frame(len, flags, from_id, num_peer_ids, id) ==
    [len |-> len, flags |-> flags, from_id |-> from_id,
     num_peer_ids |-> num_peer_ids, id |-> id]

MaxPacketLen == DATAPROTO_MAX_OVERHEAD + MaxDeviceMtu

\* The buffers handed to the handler.  Bytes past the end of a buffer are never
\* read and are fixed here; so is from_id in the frames that are dropped on
\* their destination count or for their missing destination id.
Frames ==
    { Frame(l, 0, NoBytes, NoBytes, NoBytes) : l \in 0..(HeaderSize - 1) }
    \cup
    { Frame(l, f, <<0, 1>>, n, NoBytes) :
        l \in HeaderSize..MaxPacketLen, f \in FlagValues, n \in {<<2, 0>>, <<0, 1>>} }
    \cup
    { Frame(l, f, s, <<0, 0>>, NoBytes) :
        l \in HeaderSize..MaxPacketLen, f \in FlagValues, s \in WireIds }
    \cup
    { Frame(l, f, <<0, 1>>, <<1, 0>>, NoBytes) :
        l \in HeaderSize..(HeaderSize + PeerIdSize - 1), f \in FlagValues }
    \cup
    { Frame(l, f, s, <<1, 0>>, d) :
        l \in (HeaderSize + PeerIdSize)..MaxPacketLen,
        f \in FlagValues, s \in WireIds, d \in WireIds }

(* ------------------------------ objects ------------------------------- *)

NoPeer == [live |-> FALSE, peer_id |-> 0, decider_peer |-> 0, is_relay_client |-> 0,
           dp_sink |-> NULL, d_receivers_ctr |-> 0]

NoDevice == [alive |-> FALSE, device_mtu |-> 0, packet_mtu |-> 0,
             relay_flow_buffer_size |-> 0, relay_flow_inactivity_time |-> 0,
             have_peer_id |-> 0, peer_id |-> 0]

\* control is in the event loop: no call of the handler is being observed
NoCall == [active |-> FALSE, o |-> 0, packet |-> 0, events |-> <<>>]

\* DPReceiveDevice_Init: the fields of a freshly constructed device
NewDevice(mtu, buf, time) ==
    [alive |-> TRUE,
     device_mtu |-> mtu,
     packet_mtu |-> DATAPROTO_MAX_OVERHEAD + mtu,
     relay_flow_buffer_size |-> buf,
     relay_flow_inactivity_time |-> time,
     have_peer_id |-> 0,
     peer_id |-> 0]

(* ------------------------------ registry ------------------------------ *)

RECURSIVE ScanPeers(_, _)
ScanPeers(list, id) ==
    IF list = <<>> THEN NULL
    ELSE IF peers[Head(list)].peer_id = id THEN Head(list)
    ELSE ScanPeers(Tail(list), id)

\* a variant that returns the last peer of the list with this id
find_peer_Latest(id) ==
    ScanPeers([i \in 1..Len(peers_list) |-> peers_list[Len(peers_list) + 1 - i]], id)

\* find_peer: the first peer of the list with this id, or NULL
find_peer(id) == ScanPeers(peers_list, id)

\* LinkedList2_Remove: the list without this node
RemoveNode(list, p) == SelectSeq(list, LAMBDA q : q # p)

(* ------------------------ the handler's effects ----------------------- *)

BLOG_WARNING == "BLOG_WARNING"
BLOG_INFO == "BLOG_INFO"

BLog(level, msg) == [type |-> "BLog", level |-> level, msg |-> msg]

DataProtoSink_Received(sink, receiving_keepalives) ==
    [type |-> "DataProtoSink_Received", sink |-> sink,
     receiving_keepalives |-> receiving_keepalives]

FrameDeciderPeer_Analyze(decider_peer, data, data_len) ==
    [type |-> "FrameDeciderPeer_Analyze", decider_peer |-> decider_peer,
     data |-> data, data_len |-> data_len]

\* a lookup in the registry, with the peer it returned
FindPeerCall(id) == [type |-> "find_peer", id |-> id, peer |-> find_peer(id)]

PacketPassInterface_Done(o) == [type |-> "PacketPassInterface_Done", recv_if |-> o]

output_func(data, data_len) == [type |-> "output_func", data |-> data, data_len |-> data_len]

DPRelayRouter_SubmitFrame(src, dst, data, data_len, buffer_size, inactivity_time) ==
    [type |-> "DPRelayRouter_SubmitFrame", relay_source |-> src, relay_sink |-> dst,
     data |-> data, data_len |-> data_len,
     buffer_size |-> buffer_size, inactivity_time |-> inactivity_time]

(* ------------------------- receiver_recv_handler_send ----------------- *)

\* the handler's locals where control reaches the label out
AtOut(events, local, src_peer, relay_dest_peer, data, data_len) ==
    [events |-> events, local |-> local, src_peer |-> src_peer,
     relay_dest_peer |-> relay_dest_peer, data |-> data, data_len |-> data_len]

\* the header fields as the handler decodes them
flags_of(pk) == ltoh8(pk.flags)
from_id_of(pk) == ltoh16(HostRead16(pk.from_id))
num_ids_of(pk) == ltoh16(HostRead16(pk.num_peer_ids))
\* the destination id is read from the buffer as it is
to_id_of(pk) == HostRead16(pk.id)

\* a variant that passes whether any flag is set
InformSink_AnyFlag(peer, flags) ==
    IF peers[peer].dp_sink # NULL
    THEN <<DataProtoSink_Received(peers[peer].dp_sink, IF flags # 0 THEN 1 ELSE 0)>>
    ELSE <<>>

\* inform sink of received packet
InformSink(peer, flags) ==
    IF peers[peer].dp_sink # NULL
    THEN <<DataProtoSink_Received(peers[peer].dp_sink,
              IF (flags % (2 * DATAPROTO_FLAGS_RECEIVING_KEEPALIVES))
                     \div DATAPROTO_FLAGS_RECEIVING_KEEPALIVES = 1 THEN 1 ELSE 0)>>
    ELSE <<>>

\* a variant that reports an unknown relay destination as a warning
RelayDecision_DestWarning(peer, src_peer, to_id, ev, data, data_len) ==
    IF peers[peer].is_relay_client = 0
    THEN AtOut(Append(ev, BLog(BLOG_WARNING, "relaying not allowed")),
               0, src_peer, NULL, data, data_len)
    ELSE IF src_peer # peer
    THEN AtOut(Append(ev, BLog(BLOG_WARNING, "relay source must be the sending peer")),
               0, src_peer, NULL, data, data_len)
    ELSE LET dest_peer == find_peer(to_id)
             ev2 == Append(ev, FindPeerCall(to_id))
         IN
         IF dest_peer = NULL
         THEN AtOut(Append(ev2, BLog(BLOG_WARNING, "relay destination peer not known")),
                    0, src_peer, NULL, data, data_len)
         ELSE IF dest_peer = src_peer
         THEN AtOut(Append(ev2, BLog(BLOG_WARNING, "relay destination cannot be the source")),
                    0, src_peer, NULL, data, data_len)
         ELSE AtOut(ev2, 0, src_peer, dest_peer, data, data_len)

\* a variant that relays a frame whatever source it names
RelayDecision_AnySource(peer, src_peer, to_id, ev, data, data_len) ==
    IF peers[peer].is_relay_client = 0
    THEN AtOut(Append(ev, BLog(BLOG_WARNING, "relaying not allowed")),
               0, src_peer, NULL, data, data_len)
    ELSE LET dest_peer == find_peer(to_id)
             ev2 == Append(ev, FindPeerCall(to_id))
         IN
         IF dest_peer = NULL
         THEN AtOut(Append(ev2, BLog(BLOG_INFO, "relay destination peer not known")),
                    0, src_peer, NULL, data, data_len)
         ELSE IF dest_peer = src_peer
         THEN AtOut(Append(ev2, BLog(BLOG_WARNING, "relay destination cannot be the source")),
                    0, src_peer, NULL, data, data_len)
         ELSE AtOut(ev2, 0, src_peer, dest_peer, data, data_len)

\* the relay branch: is relaying allowed, and to whom
RelayDecision(peer, src_peer, to_id, ev, data, data_len) ==
    IF peers[peer].is_relay_client = 0
    THEN AtOut(Append(ev, BLog(BLOG_WARNING, "relaying not allowed")),
               0, src_peer, NULL, data, data_len)
    ELSE IF src_peer # peer
    THEN AtOut(Append(ev, BLog(BLOG_WARNING, "relay source must be the sending peer")),
               0, src_peer, NULL, data, data_len)
    ELSE LET dest_peer == find_peer(to_id)
             ev2 == Append(ev, FindPeerCall(to_id))
         IN
         IF dest_peer = NULL
         THEN AtOut(Append(ev2, BLog(BLOG_INFO, "relay destination peer not known")),
                    0, src_peer, NULL, data, data_len)
         ELSE IF dest_peer = src_peer
         THEN AtOut(Append(ev2, BLog(BLOG_WARNING, "relay destination cannot be the source")),
                    0, src_peer, NULL, data, data_len)
         ELSE AtOut(ev2, 0, src_peer, dest_peer, data, data_len)

\* a variant that drops a frame of an unknown source without a diagnostic
RouteFrame_SilentUnknownSource(peer, from_id, to_id, ev, data, data_len) ==
    LET src_peer == find_peer(from_id)
        ev1 == Append(ev, FindPeerCall(from_id))
    IN
    IF src_peer = NULL
    THEN AtOut(ev1, 0, NULL, NULL, data, data_len)
    ELSE IF device.have_peer_id = 1 /\ to_id = device.peer_id
    THEN AtOut(Append(ev1, FrameDeciderPeer_Analyze(peers[src_peer].decider_peer, data, data_len)),
               1, src_peer, NULL, data, data_len)
    ELSE RelayDecision(peer, src_peer, to_id, ev1, data, data_len)

\* a variant that analyses on the handle of the receiving peer
RouteFrame_AnalyzeReceiver(peer, from_id, to_id, ev, data, data_len) ==
    LET src_peer == find_peer(from_id)
        ev1 == Append(ev, FindPeerCall(from_id))
    IN
    IF src_peer = NULL
    THEN AtOut(Append(ev1, BLog(BLOG_INFO, "source peer not known")),
               0, NULL, NULL, data, data_len)
    ELSE IF device.have_peer_id = 1 /\ to_id = device.peer_id
    THEN AtOut(Append(ev1, FrameDeciderPeer_Analyze(peers[peer].decider_peer, data, data_len)),
               1, src_peer, NULL, data, data_len)
    ELSE RelayDecision(peer, src_peer, to_id, ev1, data, data_len)

\* a variant that goes on to the relay branch with a frame for the device
RouteFrame_LocalThenRelay(peer, from_id, to_id, ev, data, data_len) ==
    LET src_peer == find_peer(from_id)
        ev1 == Append(ev, FindPeerCall(from_id))
    IN
    IF src_peer = NULL
    THEN AtOut(Append(ev1, BLog(BLOG_INFO, "source peer not known")),
               0, NULL, NULL, data, data_len)
    ELSE IF device.have_peer_id = 1 /\ to_id = device.peer_id
    THEN [RelayDecision(peer, src_peer, to_id,
              Append(ev1, FrameDeciderPeer_Analyze(peers[src_peer].decider_peer, data, data_len)),
              data, data_len) EXCEPT !.local = 1]
    ELSE RelayDecision(peer, src_peer, to_id, ev1, data, data_len)

\* num_ids == 1: find the source peer; is the frame for the device or another peer?
RouteFrame(peer, from_id, to_id, ev, data, data_len) ==
    LET src_peer == find_peer(from_id)
        ev1 == Append(ev, FindPeerCall(from_id))
    IN
    IF src_peer = NULL
    THEN AtOut(Append(ev1, BLog(BLOG_INFO, "source peer not known")),
               0, NULL, NULL, data, data_len)
    ELSE IF device.have_peer_id = 1 /\ to_id = device.peer_id
    THEN AtOut(Append(ev1, FrameDeciderPeer_Analyze(peers[src_peer].decider_peer, data, data_len)),
               1, src_peer, NULL, data, data_len)
    ELSE RelayDecision(peer, src_peer, to_id, ev1, data, data_len)

\* a variant that informs the sink before it checks the remaining data
CheckRemaining_SinkFirst(peer, pk, num_ids, data, data_len) ==
    LET ev == InformSink(peer, flags_of(pk)) IN
    IF data_len > device.device_mtu
    THEN AtOut(Append(ev, BLog(BLOG_WARNING, "frame too large")),
               0, NULL, NULL, data, data_len)
    ELSE IF num_ids = 1
         THEN RouteFrame(peer, from_id_of(pk), to_id_of(pk), ev, data, data_len)
         ELSE AtOut(ev, 0, NULL, NULL, data, data_len)

\* a variant that routes a frame with no destination as well
CheckRemaining_RouteNoDestination(peer, pk, num_ids, data, data_len) ==
    IF data_len > device.device_mtu
    THEN AtOut(<<BLog(BLOG_WARNING, "frame too large")>>, 0, NULL, NULL, data, data_len)
    ELSE LET ev == InformSink(peer, flags_of(pk)) IN
         RouteFrame(peer, from_id_of(pk), to_id_of(pk), ev, data, data_len)

\* after the destination check: the size check, the sink, the routing
CheckRemaining(peer, pk, num_ids, data, data_len) ==
    IF data_len > device.device_mtu
    THEN AtOut(<<BLog(BLOG_WARNING, "frame too large")>>, 0, NULL, NULL, data, data_len)
    ELSE LET ev == InformSink(peer, flags_of(pk)) IN
         IF num_ids = 1
         THEN RouteFrame(peer, from_id_of(pk), to_id_of(pk), ev, data, data_len)
         ELSE AtOut(ev, 0, NULL, NULL, data, data_len)

\* check header, check destination ID
ParseFrame(peer, pk) ==
    IF pk.len < HeaderSize
    THEN AtOut(<<BLog(BLOG_WARNING, "no dataproto header")>>, 0, NULL, NULL, 0, pk.len)
    ELSE LET data == HeaderSize
             data_len == pk.len - HeaderSize
             num_ids == num_ids_of(pk)
         IN  IF ~(num_ids = 0 \/ num_ids = 1)
             THEN AtOut(<<BLog(BLOG_WARNING, "wrong number of destinations")>>,
                        0, NULL, NULL, data, data_len)
             ELSE IF num_ids = 1
             THEN IF data_len < PeerIdSize
                  THEN AtOut(<<BLog(BLOG_WARNING, "missing destination")>>,
                             0, NULL, NULL, data, data_len)
                  ELSE CheckRemaining(peer, pk, num_ids,
                                      data + PeerIdSize, data_len - PeerIdSize)
             ELSE CheckRemaining(peer, pk, num_ids, data, data_len)

\* a variant that returns from the drop paths without accepting the packet
OutLabel_NoDoneOnDrop(o, st) ==
    st.events
    \o (IF st.local = 1 \/ st.relay_dest_peer # NULL
        THEN <<PacketPassInterface_Done(o)>> ELSE <<>>)
    \o (IF st.local = 1 THEN <<output_func(st.data, st.data_len)>> ELSE <<>>)
    \o (IF st.relay_dest_peer # NULL
        THEN <<DPRelayRouter_SubmitFrame(st.src_peer, st.relay_dest_peer,
                   st.data, st.data_len,
                   device.relay_flow_buffer_size, device.relay_flow_inactivity_time)>>
        ELSE <<>>)

\* a variant that accepts the packet after it has passed it on
OutLabel_DoneLast(o, st) ==
    st.events
    \o (IF st.local = 1 THEN <<output_func(st.data, st.data_len)>> ELSE <<>>)
    \o (IF st.relay_dest_peer # NULL
        THEN <<DPRelayRouter_SubmitFrame(st.src_peer, st.relay_dest_peer,
                   st.data, st.data_len,
                   device.relay_flow_buffer_size, device.relay_flow_inactivity_time)>>
        ELSE <<>>)
    \o <<PacketPassInterface_Done(o)>>

\* the code after the label out: accept packet, pass packet to device, relay frame
OutLabel(o, st) ==
    st.events
    \o <<PacketPassInterface_Done(o)>>
    \o (IF st.local = 1 THEN <<output_func(st.data, st.data_len)>> ELSE <<>>)
    \o (IF st.relay_dest_peer # NULL
        THEN <<DPRelayRouter_SubmitFrame(st.src_peer, st.relay_dest_peer,
                   st.data, st.data_len,
                   device.relay_flow_buffer_size, device.relay_flow_inactivity_time)>>
        ELSE <<>>)

\* the calls the handler makes, in order, on receiver o and packet pk
receiver_recv_handler_send(o, pk) == OutLabel(o, ParseFrame(receivers[o], pk))

(* ------------------------------ actions ------------------------------- *)

\* a variant in which a frame that is dropped detaches the receiving peer's sink
Receive_DropDetaches(o, pk) ==
    /\ ~call.active
    /\ device.alive
    /\ receivers[o] # NULL
    /\ pk.len >= 0
    /\ pk.len <= device.packet_mtu
    /\ call' = [active |-> TRUE, o |-> o, packet |-> pk,
                events |-> receiver_recv_handler_send(o, pk)]
    /\ peers' = IF Len(receiver_recv_handler_send(o, pk)) = 2
                THEN [peers EXCEPT ![receivers[o]].dp_sink = NULL]
                ELSE peers
    /\ UNCHANGED <<wpa_vars, big_endian, device, peers_list, receivers>>

\* the transport hands a buffer to a receiver's input
Receive(o, pk) ==
    /\ ~call.active
    /\ device.alive
    /\ receivers[o] # NULL
    /\ pk.len >= 0
    /\ pk.len <= device.packet_mtu
    /\ call' = [active |-> TRUE, o |-> o, packet |-> pk,
                events |-> receiver_recv_handler_send(o, pk)]
    /\ UNCHANGED <<wpa_vars, big_endian, device, peers, peers_list, receivers>>

\* the handler returns to the event loop
HandlerReturn ==
    /\ call.active
    /\ call' = NoCall
    /\ UNCHANGED <<wpa_vars, big_endian, device, peers, peers_list, receivers>>

DPReceiveDevice_Init(device_mtu, buffer_size, inactivity_time) ==
    /\ ~call.active
    /\ ~device.alive
    /\ device_mtu >= 0
    /\ buffer_size > 0
    /\ device' = NewDevice(device_mtu, buffer_size, inactivity_time)
    /\ peers_list' = <<>>
    /\ UNCHANGED <<wpa_vars, big_endian, peers, receivers, call>>

DPReceiveDevice_Free ==
    /\ ~call.active
    /\ device.alive
    /\ peers_list = <<>>
    /\ device' = NoDevice
    /\ UNCHANGED <<wpa_vars, big_endian, peers, peers_list, receivers, call>>

DPReceiveDevice_SetPeerID(peer_id) ==
    /\ ~call.active
    /\ device.alive
    /\ device' = [device EXCEPT !.peer_id = peer_id, !.have_peer_id = 1]
    /\ UNCHANGED <<wpa_vars, big_endian, peers, peers_list, receivers, call>>

DPReceivePeer_Init(o, peer_id, decider_peer, is_relay_client) ==
    /\ ~call.active
    /\ device.alive
    /\ ~peers[o].live
    /\ is_relay_client \in {0, 1}
    /\ peers' = [peers EXCEPT ![o] =
            [live |-> TRUE, peer_id |-> peer_id, decider_peer |-> decider_peer,
             is_relay_client |-> is_relay_client, dp_sink |-> NULL,
             d_receivers_ctr |-> 0]]
    /\ peers_list' = Append(peers_list, o)
    /\ UNCHANGED <<wpa_vars, big_endian, device, receivers, call>>

DPReceivePeer_Free(o) ==
    /\ ~call.active
    /\ peers[o].live
    /\ peers[o].d_receivers_ctr = 0
    /\ peers[o].dp_sink = NULL
    /\ peers_list' = RemoveNode(peers_list, o)
    /\ peers' = [peers EXCEPT ![o] = NoPeer]
    /\ UNCHANGED <<wpa_vars, big_endian, device, receivers, call>>

\* a variant that attaches a sink whether or not the peer has one
DPReceivePeer_AttachSink_Replace(o, dp_sink) ==
    /\ ~call.active
    /\ peers[o].live
    /\ dp_sink # NULL
    /\ peers' = [peers EXCEPT ![o].dp_sink = dp_sink]
    /\ UNCHANGED <<wpa_vars, big_endian, device, peers_list, receivers, call>>

DPReceivePeer_AttachSink(o, dp_sink) ==
    /\ ~call.active
    /\ peers[o].live
    /\ peers[o].dp_sink = NULL
    /\ dp_sink # NULL
    /\ peers' = [peers EXCEPT ![o].dp_sink = dp_sink]
    /\ UNCHANGED <<wpa_vars, big_endian, device, peers_list, receivers, call>>

DPReceivePeer_DetachSink(o) ==
    /\ ~call.active
    /\ peers[o].live
    /\ peers[o].dp_sink # NULL
    /\ peers' = [peers EXCEPT ![o].dp_sink = NULL]
    /\ UNCHANGED <<wpa_vars, big_endian, device, peers_list, receivers, call>>

DPReceiveReceiver_Init(o, peer) ==
    /\ ~call.active
    /\ receivers[o] = NULL
    /\ peers[peer].live
    /\ receivers' = [receivers EXCEPT ![o] = peer]
    /\ peers' = [peers EXCEPT ![peer].d_receivers_ctr = @ + 1]
    /\ UNCHANGED <<wpa_vars, big_endian, device, peers_list, call>>

\* a variant that does not count the receiver down
DPReceiveReceiver_Free_NoDecrement(o) ==
    /\ ~call.active
    /\ receivers[o] # NULL
    /\ receivers' = [receivers EXCEPT ![o] = NULL]
    /\ UNCHANGED <<wpa_vars, big_endian, device, peers, peers_list, call>>

DPReceiveReceiver_Free(o) ==
    /\ ~call.active
    /\ receivers[o] # NULL
    /\ peers' = [peers EXCEPT ![receivers[o]].d_receivers_ctr = @ - 1]
    /\ receivers' = [receivers EXCEPT ![o] = NULL]
    /\ UNCHANGED <<wpa_vars, big_endian, device, peers_list, call>>

Init ==
    /\ big_endian \in BOOLEAN
    /\ device \in {NewDevice(m, b, t) :
                      m \in DeviceMtus, b \in RelayBufferSizes, t \in RelayInactivityTimes}
    /\ peers = [p \in PeerSlots |-> NoPeer]
    /\ peers_list = <<>>
    /\ receivers = [r \in RecvSlots |-> NULL]
    /\ call = NoCall
    /\ WpaIdle

Next ==
    \/ \E o \in RecvSlots, pk \in Frames : Receive(o, pk)
    \/ HandlerReturn
    \/ \E m \in DeviceMtus, b \in RelayBufferSizes, t \in RelayInactivityTimes :
           DPReceiveDevice_Init(m, b, t)
    \/ DPReceiveDevice_Free
    \/ \E id \in SelfIdValues : DPReceiveDevice_SetPeerID(id)
    \/ \E o \in PeerSlots, id \in PeerIdValues, r \in {0, 1} :
           DPReceivePeer_Init(o, id, DeciderOf(o), r)
    \/ \E o \in PeerSlots : DPReceivePeer_Free(o)
    \/ \E o \in PeerSlots, s \in Sinks : DPReceivePeer_AttachSink(o, s)
    \/ \E o \in PeerSlots : DPReceivePeer_DetachSink(o)
    \/ \E o \in RecvSlots, p \in PeerSlots : DPReceiveReceiver_Init(o, p)
    \/ \E o \in RecvSlots : DPReceiveReceiver_Free(o)

Spec == Init /\ [][Next]_vars

(* ------------- ncd/modules/net_backend_wpa_supplicant.c --------------- *)
(* One module instance runs wpa_supplicant and reads its output line by    *)
(* line.  A line is modelled as the sequence of its pieces: the fixed      *)
(* texts the parsers look for are one piece each, the BSSID is one piece   *)
(* per character.                                                          *)

\* backend calls (Up, Down, SetError, Dead) an instance may make before the
\* process stops printing
MaxBackendCalls == 4

EVENT_STRING_CONNECTED == "CTRL-EVENT-CONNECTED"
EVENT_STRING_DISCONNECTED == "CTRL-EVENT-DISCONNECTED"
TRYING_PREFIX == "Trying to associate with "
BLOG_ERROR == "BLOG_ERROR"

\* a field of the instance that has not been assigned yet
Uninit == "uninitialized"

\* the characters of the BSSID AB:01:AB:01:AB:01
SomeBssid == <<"A", "B", ":", "0", "1", ":", "A", "B", ":", "0", "1", ":", "A", "B", ":", "0", "1">>

\* the lines the process prints
WpaLines ==
    { <<TRYING_PREFIX>> \o SomeBssid \o <<" (SSID='", "net", "'", " freq=2462 MHz)">>,
      <<TRYING_PREFIX, "SSID '", "net", "'">>,
      <<TRYING_PREFIX, "SSID '", "net">>,
      <<TRYING_PREFIX>> \o SubSeq(SomeBssid, 1, 14) \o <<" (SSID='", "net", "'">>,
      <<EVENT_STRING_CONNECTED, " - Connection to AB:01:AB:01:AB:01 completed">>,
      <<EVENT_STRING_DISCONNECTED, " bssid=AB:01:AB:01:AB:01 reason=3">>,
      <<"WPA: Key negotiation completed">> }

\* parse_hex_digit: the value of a hexadecimal digit, or -1 where the code returns 0
parse_hex_digit(d) ==
    CASE d = "0" -> 0 [] d = "1" -> 1 [] d = "2" -> 2 [] d = "3" -> 3
      [] d = "4" -> 4 [] d = "5" -> 5 [] d = "6" -> 6 [] d = "7" -> 7
      [] d = "8" -> 8 [] d = "9" -> 9
      [] d \in {"A", "a"} -> 10 [] d \in {"B", "b"} -> 11
      [] d \in {"C", "c"} -> 12 [] d \in {"D", "d"} -> 13
      [] d \in {"E", "e"} -> 14 [] d \in {"F", "f"} -> 15
      [] OTHER -> -1

\* data_begins_with: the length of the prefix if the data begins with it, else 0
data_begins_with(data, prefix) ==
    IF Len(data) >= Len(prefix) /\ SubSeq(data, 1, Len(prefix)) = prefix
    THEN Len(prefix) ELSE 0

\* the loop of parse_trying over the six bytes of the BSSID, from byte i on
RECURSIVE ParseBssidFrom(_, _, _)
ParseBssidFrom(data, i, out_bssid) ==
    IF i = 6 THEN [ok |-> TRUE, bssid |-> out_bssid, rest |-> data]
    ELSE IF \/ Len(data) < 2
            \/ parse_hex_digit(data[1]) = -1
            \/ parse_hex_digit(data[2]) = -1
    THEN [ok |-> FALSE, bssid |-> out_bssid, rest |-> data]
    ELSE LET byte == (parse_hex_digit(data[1]) * 16 + parse_hex_digit(data[2])) % 256
             after == SubSeq(data, 3, Len(data))
         IN  IF i # 5
             THEN IF Len(after) < 1 \/ after[1] # ":"
                  THEN [ok |-> FALSE, bssid |-> Append(out_bssid, byte), rest |-> after]
                  ELSE ParseBssidFrom(Tail(after), i + 1, Append(out_bssid, byte))
             ELSE ParseBssidFrom(after, i + 1, Append(out_bssid, byte))

\* find last ': its position in the data, or 0
FindLastQuote(data) ==
    IF \E i \in 1..Len(data) : data[i] = "'"
    THEN CHOOSE i \in 1..Len(data) :
             data[i] = "'" /\ \A j \in (i + 1)..Len(data) : data[j] # "'"
    ELSE 0

\* what follows the opening quote: the SSID up to the last quote
ParseSsid(data) ==
    LET q == FindLastQuote(data) IN
    IF q = 0 THEN [ok |-> FALSE, ssid |-> <<>>]
    ELSE [ok |-> TRUE, ssid |-> SubSeq(data, 1, q - 1)]

\* Trying to associate with AB:CD:EF:01:23:45 (SSID='Some SSID' freq=2462 MHz)
parse_trying(data) ==
    LET p == data_begins_with(data, <<TRYING_PREFIX>>) IN
    IF p = 0 THEN [ok |-> FALSE]
    ELSE LET b == ParseBssidFrom(SubSeq(data, p + 1, Len(data)), 0, <<>>) IN
         IF ~b.ok THEN [ok |-> FALSE]
         ELSE LET p2 == data_begins_with(b.rest, <<" (SSID='">>) IN
              IF p2 = 0 THEN [ok |-> FALSE]
              ELSE LET s == ParseSsid(SubSeq(b.rest, p2 + 1, Len(b.rest))) IN
                   IF ~s.ok THEN [ok |-> FALSE]
                   ELSE [ok |-> TRUE, bssid |-> b.bssid, ssid |-> s.ssid]

\* Trying to associate with SSID 'Some SSID'
parse_trying_nobssid(data) ==
    LET p == data_begins_with(data, <<TRYING_PREFIX, "SSID '">>) IN
    IF p = 0 THEN [ok |-> FALSE]
    ELSE LET s == ParseSsid(SubSeq(data, p + 1, Len(data))) IN
         IF ~s.ok THEN [ok |-> FALSE]
         ELSE [ok |-> TRUE, ssid |-> s.ssid]

\* the calls the callbacks of the instance make
ModuleLog(level, msg) == [type |-> "ModuleLog", level |-> level, msg |-> msg]
BInputProcess_Terminate == [type |-> "BInputProcess_Terminate"]
NCDModuleInst_Backend_Up == [type |-> "NCDModuleInst_Backend_Up"]
NCDModuleInst_Backend_Down == [type |-> "NCDModuleInst_Backend_Down"]
NCDModuleInst_Backend_SetError == [type |-> "NCDModuleInst_Backend_SetError"]
NCDModuleInst_Backend_Dead == [type |-> "NCDModuleInst_Backend_Dead"]

BackendCallTypes ==
    {"NCDModuleInst_Backend_Up", "NCDModuleInst_Backend_Down",
     "NCDModuleInst_Backend_SetError", "NCDModuleInst_Backend_Dead"}

\* the backend calls among the calls of a callback
BackendCallsOf(calls) == SelectSeq(calls, LAMBDA c : c.type \in BackendCallTypes)

\* the instance as func_new leaves it when it succeeds
NewInstance ==
    [allocated |-> TRUE, dying |-> 0, up |-> 0, have_pipe |-> 1, have_info |-> 0,
     info_have_bssid |-> Uninit, info_bssid |-> Uninit, info_ssid |-> Uninit,
     process |-> [terminate_requested |-> FALSE]]

\* the instance and the calls made so far, as a callback returns them
Outcome(o, calls) == [o |-> o, calls |-> calls]

\* init_info: store the BSSID and a copy of the SSID; the allocation may fail
init_info(o, have_bssid, bssid, ssid, alloc_ok) ==
    LET o1 == [o EXCEPT !.info_have_bssid = have_bssid,
                        !.info_bssid = IF have_bssid = 1 THEN bssid ELSE @]
    IN  IF ~alloc_ok
        THEN [ok |-> FALSE, o |-> [o1 EXCEPT !.info_ssid = NULL],
              calls |-> <<ModuleLog(BLOG_ERROR, "BAllocSize failed")>>]
        ELSE [ok |-> TRUE, o |-> [o1 EXCEPT !.info_ssid = ssid, !.have_info = 1],
              calls |-> <<>>]

\* free_info: free the SSID, set not have info
free_info(o) == [o EXCEPT !.info_ssid = Uninit, !.have_info = 0]

\* process_error: request termination of the process
process_error(o, calls) ==
    Outcome([o EXCEPT !.process.terminate_requested = TRUE],
            Append(calls, BInputProcess_Terminate))

\* a variant that takes a trying event while up like any other
TryingEvent_WhileUp(o, have_bssid, bssid, ssid, alloc_ok, calls) ==
    LET calls1 == Append(calls, ModuleLog(BLOG_INFO, "trying event"))
        o1 == IF o.have_info = 1 THEN free_info(o) ELSE o
        r == init_info(o1, have_bssid, bssid, ssid, alloc_ok)
    IN  IF ~r.ok
        THEN process_error(r.o,
                 Append(calls1 \o r.calls, ModuleLog(BLOG_ERROR, "init_info failed")))
        ELSE Outcome(r.o, calls1)

\* the branch of a trying event
TryingEvent(o, have_bssid, bssid, ssid, alloc_ok, calls) ==
    LET calls1 == Append(calls, ModuleLog(BLOG_INFO, "trying event")) IN
    IF o.up = 1
    THEN process_error(o, Append(calls1, ModuleLog(BLOG_ERROR, "trying unexpected!")))
    ELSE LET o1 == IF o.have_info = 1 THEN free_info(o) ELSE o
             r == init_info(o1, have_bssid, bssid, ssid, alloc_ok)
         IN  IF ~r.ok
             THEN process_error(r.o,
                      Append(calls1 \o r.calls, ModuleLog(BLOG_ERROR, "init_info failed")))
             ELSE Outcome(r.o, calls1)

\* a variant that drops the connection state on an unexpected connected event
ConnectedEvent_UnexpectedResets(o, calls) ==
    LET calls1 == Append(calls, ModuleLog(BLOG_INFO, "connected event")) IN
    IF o.up = 1 \/ o.have_info = 0
    THEN process_error([(IF o.have_info = 1 THEN free_info(o) ELSE o) EXCEPT !.up = 0],
                       Append(calls1, ModuleLog(BLOG_ERROR, "connected unexpected!")))
    ELSE Outcome([o EXCEPT !.up = 1], Append(calls1, NCDModuleInst_Backend_Up))

\* the branch of a connected event
ConnectedEvent(o, calls) ==
    LET calls1 == Append(calls, ModuleLog(BLOG_INFO, "connected event")) IN
    IF o.up = 1 \/ o.have_info = 0
    THEN process_error(o, Append(calls1, ModuleLog(BLOG_ERROR, "connected unexpected!")))
    ELSE Outcome([o EXCEPT !.up = 1], Append(calls1, NCDModuleInst_Backend_Up))

\* the branch of a disconnected event
DisconnectedEvent(o, calls) ==
    LET calls1 == Append(calls, ModuleLog(BLOG_INFO, "disconnected event"))
        o1 == IF o.have_info = 1 THEN free_info(o) ELSE o
    IN  IF o1.up = 1
        THEN Outcome([o1 EXCEPT !.up = 0], Append(calls1, NCDModuleInst_Backend_Down))
        ELSE Outcome(o1, calls1)

\* a variant that goes on classifying lines after func_die
process_pipe_handler_send_WhileDying(o, data, alloc_ok) ==
    LET calls == <<PacketPassInterface_Done("pipe_input")>>
        t == parse_trying(data)
        n == parse_trying_nobssid(data)
    IN  IF t.ok THEN TryingEvent(o, 1, t.bssid, t.ssid, alloc_ok, calls)
        ELSE IF n.ok THEN TryingEvent(o, 0, <<>>, n.ssid, alloc_ok, calls)
        ELSE IF data_begins_with(data, <<EVENT_STRING_CONNECTED>>) # 0
        THEN ConnectedEvent(o, calls)
        ELSE IF data_begins_with(data, <<EVENT_STRING_DISCONNECTED>>) # 0
        THEN DisconnectedEvent(o, calls)
        ELSE Outcome(o, calls)

\* process_pipe_handler_send: accept the line, then classify it
process_pipe_handler_send(o, data, alloc_ok) ==
    LET calls == <<PacketPassInterface_Done("pipe_input")>>
        t == parse_trying(data)
        n == parse_trying_nobssid(data)
    IN  IF o.dying = 1 THEN Outcome(o, calls)
        ELSE IF t.ok THEN TryingEvent(o, 1, t.bssid, t.ssid, alloc_ok, calls)
        ELSE IF n.ok THEN TryingEvent(o, 0, <<>>, n.ssid, alloc_ok, calls)
        ELSE IF data_begins_with(data, <<EVENT_STRING_CONNECTED>>) # 0
        THEN ConnectedEvent(o, calls)
        ELSE IF data_begins_with(data, <<EVENT_STRING_DISCONNECTED>>) # 0
        THEN DisconnectedEvent(o, calls)
        ELSE Outcome(o, calls)

\* instance_free: free info, pipe, process and the instance; report dead
instance_free(o, calls) ==
    Outcome(NoInstance, Append(calls, NCDModuleInst_Backend_Dead))

\* process_handler_terminated
process_handler_terminated(o) ==
    LET calls == <<ModuleLog(IF o.dying = 1 THEN BLOG_INFO ELSE BLOG_ERROR,
                             "process terminated")>>
    IN  IF o.dying = 0
        THEN instance_free(o, Append(calls, NCDModuleInst_Backend_SetError))
        ELSE instance_free(o, calls)

\* the byte as two capital hexadecimal digits (%02X)
FormatByte(b) ==
    LET digit == <<"0", "1", "2", "3", "4", "5", "6", "7", "8", "9",
                   "A", "B", "C", "D", "E", "F">>
    IN  <<digit[(b \div 16) + 1], digit[(b % 16) + 1]>>

\* func_getvar: the value of a variable of the instance, or 0 if it has none
func_getvar(o, name) ==
    IF name = "bssid"
    THEN IF o.info_have_bssid = 0 THEN <<"n", "o", "n", "e">>
         ELSE LET id == o.info_bssid IN
              FormatByte(id[1]) \o <<":">> \o FormatByte(id[2]) \o <<":">>
              \o FormatByte(id[3]) \o <<":">> \o FormatByte(id[4]) \o <<":">>
              \o FormatByte(id[5]) \o <<":">> \o FormatByte(id[6])
    ELSE IF name = "ssid" THEN o.info_ssid
    ELSE 0

\* the module framework holds the instance to be up: its last Up or Down
\* notification is an Up
ReportedUp ==
    LET ud == SelectSeq(backend, LAMBDA c : c.type \in {"NCDModuleInst_Backend_Up",
                                                         "NCDModuleInst_Backend_Down"})
    IN  ud # <<>> /\ ud[Len(ud)].type = "NCDModuleInst_Backend_Up"

\* the line is a trying event, with or without BSSID
IsTrying(data) == parse_trying(data).ok \/ parse_trying_nobssid(data).ok
IsConnected(data) ==
    ~IsTrying(data) /\ data_begins_with(data, <<EVENT_STRING_CONNECTED>>) # 0
IsDisconnected(data) ==
    /\ ~IsTrying(data) /\ ~IsConnected(data)
    /\ data_begins_with(data, <<EVENT_STRING_DISCONNECTED>>) # 0

\* the state of client/DPReceive.c, which the backend module does not touch
dp_vars == <<big_endian, device, peers, peers_list, receivers, call>>

\* a callback of the instance has run: what it was given, what it called,
\* and the instance as it found it
PipeCall(fn, arg, before, calls) ==
    [fn |-> fn, arg |-> arg, before |-> before, calls |-> calls]

\* func_new: the framework creates the instance; any step of it may fail
func_new(fails) ==
    /\ inst = NoInstance
    /\ backend = <<>>
    /\ pipe_call = NoPipeCall
    /\ IF fails
       THEN LET calls == <<NCDModuleInst_Backend_SetError, NCDModuleInst_Backend_Dead>> IN
            /\ inst' = NoInstance
            /\ backend' = calls
            /\ pipe_call' = PipeCall("func_new", fails, NoInstance, calls)
       ELSE /\ inst' = NewInstance
            /\ backend' = <<>>
            /\ pipe_call' = PipeCall("func_new", fails, NoInstance, <<>>)
    /\ UNCHANGED <<tried, dp_vars>>

\* the line buffer passes a line of the process's output to the instance
LineReceived(data, alloc_ok) ==
    /\ inst.allocated
    /\ inst.have_pipe = 1
    /\ Len(data) > 0
    /\ Len(backend) < MaxBackendCalls
    /\ LET r == process_pipe_handler_send(inst, data, alloc_ok) IN
       /\ inst' = r.o
       /\ backend' = backend \o BackendCallsOf(r.calls)
       /\ pipe_call' = PipeCall("process_pipe_handler_send", data, inst, r.calls)
    /\ tried' = IF IsTrying(data) THEN TRUE
                ELSE IF IsDisconnected(data) THEN FALSE
                ELSE tried
    /\ UNCHANGED dp_vars

\* process_handler_closed: the pipe is closed, no more lines
process_handler_closed(is_error) ==
    /\ inst.allocated
    /\ inst.have_pipe = 1
    /\ inst' = [inst EXCEPT !.have_pipe = 0]
    /\ pipe_call' = PipeCall("process_handler_closed", is_error, inst,
           <<ModuleLog(IF is_error = 1 THEN BLOG_ERROR ELSE BLOG_INFO,
                       IF is_error = 1 THEN "pipe error" ELSE "pipe closed")>>)
    /\ UNCHANGED <<backend, tried, dp_vars>>

\* the process terminates, on request or by itself
ProcessTerminated ==
    /\ inst.allocated
    /\ LET r == process_handler_terminated(inst) IN
       /\ inst' = r.o
       /\ backend' = backend \o BackendCallsOf(r.calls)
       /\ pipe_call' = PipeCall("process_handler_terminated", 0, inst, r.calls)
    /\ UNCHANGED <<tried, dp_vars>>

\* func_die: the framework asks the instance to die, once
func_die ==
    /\ inst.allocated
    /\ inst.dying = 0
    /\ inst' = [inst EXCEPT !.process.terminate_requested = TRUE, !.dying = 1]
    /\ pipe_call' = PipeCall("func_die", 0, inst, <<BInputProcess_Terminate>>)
    /\ UNCHANGED <<backend, tried, dp_vars>>

\* the framework asks for a variable of an instance it holds to be up
GetVar(name) ==
    /\ inst.allocated
    /\ inst.dying = 0
    /\ ReportedUp
    /\ pipe_call' = [fn |-> "func_getvar", arg |-> name, before |-> inst,
                     calls |-> <<>>,
                     asserts_hold |-> (inst.up = 1 /\ inst.have_info = 1),
                     out |-> IF inst.up = 1 /\ inst.have_info = 1
                             THEN func_getvar(inst, name) ELSE Uninit]
    /\ UNCHANGED <<inst, backend, tried, dp_vars>>

WpaInit == Init

WpaNext ==
    \/ \E fails \in BOOLEAN : func_new(fails)
    \/ \E data \in WpaLines, alloc_ok \in BOOLEAN : LineReceived(data, alloc_ok)
    \/ \E is_error \in {0, 1} : process_handler_closed(is_error)
    \/ ProcessTerminated
    \/ func_die
    \/ \E name \in {"bssid", "ssid", "ifname"} : GetVar(name)

WpaSpec == WpaInit /\ [][WpaNext]_vars

(* ---------------------- vocabulary of the properties ------------------ *)

\* the fields of a frame as the wire format defines them (little-endian)
WireFrom(pk) == WireValue(pk.from_id)
WireCount(pk) == WireValue(pk.num_peer_ids)
WireDest(pk) == WireValue(pk.id)

HasHeader(pk) == pk.len >= HeaderSize
HasDest(pk) == pk.len >= HeaderSize + PeerIdSize
PayloadOffset(pk) == IF WireCount(pk) = 1 THEN HeaderSize + PeerIdSize ELSE HeaderSize
PayloadLen(pk) == pk.len - PayloadOffset(pk)

\* the frame passes the format checks
WellFormed(pk) ==
    /\ HasHeader(pk)
    /\ WireCount(pk) \in {0, 1}
    /\ (WireCount(pk) = 1 => HasDest(pk))
    /\ PayloadLen(pk) <= device.device_mtu

\* the peers of the registry carrying an id
Registered(id) == {p \in PeerSlots : peers[p].live /\ peers[p].peer_id = id}

\* the calls of one kind made by the observed call of the handler, in order
Calls(type) == SelectSeq(call.events, LAMBDA e : e.type = type)
Made(type) == Len(Calls(type))
\* the positions of the calls of one kind among all the calls made
Positions(type) == {i \in 1..Len(call.events) : call.events[i].type = type}

\* the peer that owns the receiver of the observed call
ReceivingPeer == receivers[call.o]

(* ------------------------------- claims ------------------------------- *)

\* C1: every call of the receive handler, whatever branch it takes, releases
\* the inbound slot of its own receiver exactly once.
C1_SlotReleasedExactlyOnce ==
    call.active =>
        /\ Made("PacketPassInterface_Done") = 1
        /\ Calls("PacketPassInterface_Done")[1].recv_if = call.o

\* a call that relayed a frame has been observed (so has one that delivered
\* locally, and one that dropped: see the witnesses of C2 to C5)
C1_Witness ==
    /\ call.active
    /\ Made("DPRelayRouter_SubmitFrame") = 1
    /\ Made("PacketPassInterface_Done") = 1

\* the one call of a kind made by the observed call
The(type) == Calls(type)[1]

\* the caller keeps the ids of the registry distinct, and distinct from the
\* device's own id (the precondition the registry leaves to its caller)
DistinctIds ==
    /\ \A p, q \in PeerSlots :
          (peers[p].live /\ peers[q].live /\ peers[p].peer_id = peers[q].peer_id) => p = q
    /\ \A p \in PeerSlots :
          (peers[p].live /\ device.have_peer_id = 1) => peers[p].peer_id # device.peer_id

\* the observed frame is well-formed, has one destination and a registered source
RoutedFrame ==
    /\ call.active
    /\ WellFormed(call.packet)
    /\ WireCount(call.packet) = 1
    /\ Registered(WireFrom(call.packet)) # {}

\* output_func got the bytes that follow the header and the destination id,
\* the analyzer got the same bytes, and nothing was relayed
DeliveredLocally ==
    /\ Made("output_func") = 1
    /\ The("output_func").data = HeaderSize + PeerIdSize
    /\ The("output_func").data_len = call.packet.len - (HeaderSize + PeerIdSize)
    /\ Made("FrameDeciderPeer_Analyze") = 1
    /\ The("FrameDeciderPeer_Analyze").data = The("output_func").data
    /\ The("FrameDeciderPeer_Analyze").data_len = The("output_func").data_len
    /\ Made("DPRelayRouter_SubmitFrame") = 0

\* C2: a well-formed frame with one destination, a registered source and the
\* device's configured id as its destination id is delivered to the output
\* callback exactly once, payload unchanged, analysed, and not relayed
\* (stated for a registry whose ids the caller keeps distinct).
C2_LocalDelivery ==
    ( /\ RoutedFrame
      /\ DistinctIds
      /\ device.have_peer_id = 1
      /\ WireDest(call.packet) = device.peer_id )
    => DeliveredLocally

\* C2 holds where the host is little-endian
C2_LocalDeliveryLittleEndian == ~big_endian => C2_LocalDelivery

\* exactly one frame was submitted to the relay router, from the receiving
\* peer's relay source to the relay sink of the peer with the destination id,
\* with the device's buffer size and inactivity time, and nothing was delivered
RelayedToDest ==
    /\ Made("DPRelayRouter_SubmitFrame") = 1
    /\ The("DPRelayRouter_SubmitFrame").relay_source = ReceivingPeer
    /\ The("DPRelayRouter_SubmitFrame").relay_sink \in Registered(WireDest(call.packet))
    /\ The("DPRelayRouter_SubmitFrame").relay_sink # ReceivingPeer
    /\ The("DPRelayRouter_SubmitFrame").data = HeaderSize + PeerIdSize
    /\ The("DPRelayRouter_SubmitFrame").data_len = call.packet.len - (HeaderSize + PeerIdSize)
    /\ The("DPRelayRouter_SubmitFrame").buffer_size = device.relay_flow_buffer_size
    /\ The("DPRelayRouter_SubmitFrame").inactivity_time = device.relay_flow_inactivity_time
    /\ Made("output_func") = 0

\* C3: a well-formed frame with one destination, sent by a relay-capable peer
\* under its own id to the id of another registered peer, is submitted to the
\* relay router exactly once, receiving peer to destination peer, and is not
\* delivered (stated for a registry whose ids the caller keeps distinct).
C3_RelaySubmission ==
    ( /\ RoutedFrame
      /\ DistinctIds
      /\ peers[ReceivingPeer].is_relay_client = 1
      /\ WireFrom(call.packet) = peers[ReceivingPeer].peer_id
      /\ Registered(WireDest(call.packet)) \ {ReceivingPeer} # {} )
    => RelayedToDest

\* C3 holds where the host is little-endian
C3_RelaySubmissionLittleEndian == ~big_endian => C3_RelaySubmission

\* nothing but diagnostics and the release of the slot
NoRouting ==
    /\ Made("output_func") = 0
    /\ Made("DPRelayRouter_SubmitFrame") = 0

\* C4: a malformed frame (shorter than the header, destination count not 0 or
\* 1, destination id missing, payload longer than the device MTU) causes no
\* sink notification, no analyzer call, no output call and no relay
\* submission, and the slot is still released.
C4_MalformedFrameDropped ==
    (call.active /\ ~WellFormed(call.packet)) =>
        /\ Made("DataProtoSink_Received") = 0
        /\ Made("FrameDeciderPeer_Analyze") = 0
        /\ NoRouting
        /\ Made("PacketPassInterface_Done") = 1

\* a frame with too long a payload arrived at a peer that has a sink attached
C4_Witness ==
    /\ call.active
    /\ HasHeader(call.packet)
    /\ WireCount(call.packet) = 0
    /\ PayloadLen(call.packet) > device.device_mtu
    /\ peers[ReceivingPeer].dp_sink # NULL
    /\ Made("PacketPassInterface_Done") = 1

\* the peer an id resolves to: the earliest registered peer carrying it
Resolves(id) ==
    IF Registered(id) = {} THEN NULL
    ELSE CHOOSE p \in Registered(id) :
             \E i \in 1..Len(peers_list) :
                 /\ peers_list[i] = p
                 /\ \A j \in 1..(i - 1) : peers_list[j] \notin Registered(id)

\* the device has an id and this is it
IsSelfId(id) == device.have_peer_id = 1 /\ id = device.peer_id

\* every diagnostic of the observed call has informational severity
OnlyInformational ==
    /\ Made("BLog") >= 1
    /\ \A i \in 1..Made("BLog") : Calls("BLog")[i].level = BLOG_INFO

\* C5 as claimed: a frame with one destination whose source id or destination
\* id names no registered peer is not routed, the slot is released, and the
\* drop is logged at informational severity (taken on a little-endian host,
\* and with the device's own id counted as a known destination).
C5_UnknownPeerInformational ==
    ( /\ call.active
      /\ ~big_endian
      /\ WellFormed(call.packet)
      /\ WireCount(call.packet) = 1
      /\ \/ Registered(WireFrom(call.packet)) = {}
         \/ /\ Registered(WireDest(call.packet)) = {}
            /\ ~IsSelfId(WireDest(call.packet)) )
    => /\ NoRouting
       /\ Made("PacketPassInterface_Done") = 1
       /\ OnlyInformational

\* C5 (amended): a frame with one destination whose source id names no
\* registered peer is not routed, the slot is released and the one diagnostic
\* is informational.  A frame with a registered source whose destination id,
\* as the handler reads it, is neither the device's id nor a registered peer's
\* is not routed either and the slot is released; its one diagnostic is
\* informational when the receiving peer may relay and the source id resolves
\* to the receiving peer, and otherwise the warning of the earlier relay check.
C5_UnknownPeerDrop ==
    (call.active /\ WellFormed(call.packet) /\ WireCount(call.packet) = 1) =>
        /\ Registered(WireFrom(call.packet)) = {} =>
              /\ NoRouting
              /\ Made("PacketPassInterface_Done") = 1
              /\ Made("BLog") = 1
              /\ The("BLog") = BLog(BLOG_INFO, "source peer not known")
        /\ ( /\ Registered(WireFrom(call.packet)) # {}
             /\ Registered(to_id_of(call.packet)) = {}
             /\ ~IsSelfId(to_id_of(call.packet)) ) =>
              /\ NoRouting
              /\ Made("PacketPassInterface_Done") = 1
              /\ Made("BLog") = 1
              /\ IF /\ peers[ReceivingPeer].is_relay_client = 1
                    /\ Resolves(WireFrom(call.packet)) = ReceivingPeer
                 THEN The("BLog") = BLog(BLOG_INFO, "relay destination peer not known")
                 ELSE The("BLog").level = BLOG_WARNING

\* a relay-capable peer sent a frame under its own id to an unknown destination
C5_Witness ==
    /\ call.active
    /\ WellFormed(call.packet)
    /\ WireCount(call.packet) = 1
    /\ Resolves(WireFrom(call.packet)) = ReceivingPeer
    /\ peers[ReceivingPeer].is_relay_client = 1
    /\ Registered(to_id_of(call.packet)) = {}
    /\ ~IsSelfId(to_id_of(call.packet))
    /\ Made("BLog") = 1
    /\ The("BLog").msg = "relay destination peer not known"

\* no relay submission names one peer as source and as destination
DistinctRelayEnds ==
    \A i \in 1..Made("DPRelayRouter_SubmitFrame") :
        Calls("DPRelayRouter_SubmitFrame")[i].relay_source
            # Calls("DPRelayRouter_SubmitFrame")[i].relay_sink

\* C6: no relay submission has the same peer as source and destination; in
\* particular a frame whose source id and destination id are equal, received
\* from a relay-capable peer, is never submitted to the relay router.
C6_NoSelfRelay ==
    call.active =>
        /\ DistinctRelayEnds
        /\ ( /\ WellFormed(call.packet)
             /\ WireCount(call.packet) = 1
             /\ WireFrom(call.packet) = WireDest(call.packet)
             /\ peers[ReceivingPeer].is_relay_client = 1 )
           => Made("DPRelayRouter_SubmitFrame") = 0

\* C6 holds where the host is little-endian
C6_NoSelfRelayLittleEndian == ~big_endian => C6_NoSelfRelay

\* the first half of C6 holds on every host
C6_DistinctRelayEnds == call.active => DistinctRelayEnds

\* C7: a call whose frame passes the header, destination-count,
\* destination-presence and payload-size checks notifies the sink attached to
\* the receiving peer exactly once, with the value of bit 0 of the flags,
\* whatever happens afterwards; with no sink attached nothing is notified.
C7_SinkNotifiedOnce ==
    (call.active /\ WellFormed(call.packet)) =>
        IF peers[ReceivingPeer].dp_sink # NULL
        THEN /\ Made("DataProtoSink_Received") = 1
             /\ The("DataProtoSink_Received").sink = peers[ReceivingPeer].dp_sink
             /\ The("DataProtoSink_Received").receiving_keepalives = call.packet.flags % 2
        ELSE Made("DataProtoSink_Received") = 0

\* a frame with bit 0 clear and another flag set was notified and then dropped
C7_Witness ==
    /\ call.active
    /\ WellFormed(call.packet)
    /\ call.packet.flags = 2
    /\ peers[ReceivingPeer].dp_sink # NULL
    /\ Made("DataProtoSink_Received") = 1
    /\ Made("BLog") = 1
    /\ NoRouting

\* C8 as claimed: every call that ends with neither a local delivery nor a
\* relay submission emits a diagnostic.
C8_NoSilentDrop ==
    (call.active /\ NoRouting) => Made("BLog") >= 1

\* the diagnostic of each reason for dropping a frame, in the order of the checks
DropDiagnostic ==
    IF ~HasHeader(call.packet) THEN "no dataproto header"
    ELSE IF WireCount(call.packet) \notin {0, 1} THEN "wrong number of destinations"
    ELSE IF ~HasDest(call.packet) THEN "missing destination"
    ELSE IF PayloadLen(call.packet) > device.device_mtu THEN "frame too large"
    ELSE IF Registered(WireFrom(call.packet)) = {} THEN "source peer not known"
    ELSE IF peers[ReceivingPeer].is_relay_client = 0 THEN "relaying not allowed"
    ELSE IF Resolves(WireFrom(call.packet)) # ReceivingPeer
         THEN "relay source must be the sending peer"
    ELSE IF Registered(to_id_of(call.packet)) = {} THEN "relay destination peer not known"
    ELSE "relay destination cannot be the source"

\* C8 (amended): every call that ends with neither a local delivery nor a
\* relay submission emits exactly one diagnostic, a different one for each
\* reason, except the call on a well-formed frame with no destination, which
\* is dropped with no diagnostic at all.
C8_DropsDiagnosedButNoDestination ==
    (call.active /\ NoRouting) =>
        IF WellFormed(call.packet) /\ WireCount(call.packet) = 0
        THEN Made("BLog") = 0
        ELSE /\ Made("BLog") = 1
             /\ The("BLog").msg = DropDiagnostic

\* a frame naming another peer as its source was dropped with its diagnostic
C8_Witness ==
    /\ call.active
    /\ NoRouting
    /\ Made("BLog") = 1
    /\ The("BLog").msg = "relay source must be the sending peer"
    /\ Resolves(WireFrom(call.packet)) \notin {NULL, ReceivingPeer}

\* the position of the release of the slot among the calls made
DonePosition == CHOOSE i \in Positions("PacketPassInterface_Done") : TRUE

\* C9 as claimed: the release of the slot is the last step of a call, after
\* the output delivery or the relay submission made for the buffer.
C9_ReleaseIsLast ==
    call.active =>
        \A i \in Positions("output_func") \cup Positions("DPRelayRouter_SubmitFrame") :
            i < DonePosition

\* C9 (amended): the release of the slot comes after the diagnostics, the
\* sink notification and the analyzer call, and before the output delivery or
\* the relay submission made for the buffer, which, when there is one, is the
\* last step of the call.
C9_ReleaseBeforeDelivery ==
    call.active =>
        /\ \A i \in Positions("BLog") \cup Positions("DataProtoSink_Received")
                    \cup Positions("FrameDeciderPeer_Analyze") : i < DonePosition
        /\ \A i \in Positions("output_func") \cup Positions("DPRelayRouter_SubmitFrame") :
              i = DonePosition + 1 /\ i = Len(call.events)

\* a delivered frame: sink notified, analysed, slot released, then delivered
C9_Witness ==
    /\ call.active
    /\ Made("DataProtoSink_Received") = 1
    /\ Made("FrameDeciderPeer_Analyze") = 1
    /\ Made("output_func") = 1
    /\ DonePosition = Len(call.events) - 1

\* C10: the analyzer is called at most once per frame, only on a frame that
\* is then delivered to the output callback (never on one that is relayed or
\* dropped), before that delivery, and on the analyzer handle of the peer the
\* source id resolves to.
C10_AnalyzerOnlyBeforeLocalDelivery ==
    call.active =>
        /\ Made("FrameDeciderPeer_Analyze") <= 1
        /\ Made("FrameDeciderPeer_Analyze") = 1 =>
              /\ Made("output_func") = 1
              /\ Made("DPRelayRouter_SubmitFrame") = 0
              /\ \A i \in Positions("FrameDeciderPeer_Analyze"),
                    j \in Positions("output_func") : i < j
              /\ Resolves(WireFrom(call.packet)) # NULL
              /\ The("FrameDeciderPeer_Analyze").decider_peer
                     = peers[Resolves(WireFrom(call.packet))].decider_peer

\* a frame for the device was analysed on the handle of a peer other than the
\* one it was received from
C10_Witness ==
    /\ call.active
    /\ Made("FrameDeciderPeer_Analyze") = 1
    /\ Made("output_func") = 1
    /\ Resolves(WireFrom(call.packet)) \notin {NULL, ReceivingPeer}
    /\ The("FrameDeciderPeer_Analyze").decider_peer # peers[ReceivingPeer].decider_peer

\* the observed frame fails a condition of the relay policy: the receiving
\* peer may not relay, or the source id is not the receiving peer's own
FailsRelayPolicy ==
    \/ peers[ReceivingPeer].is_relay_client = 0
    \/ WireFrom(call.packet) # peers[ReceivingPeer].peer_id

\* the observed frame is well-formed, has one destination, and that
\* destination, as the handler reads it, is not the device's own id
RelayCandidate ==
    /\ call.active
    /\ WellFormed(call.packet)
    /\ WireCount(call.packet) = 1
    /\ ~IsSelfId(to_id_of(call.packet))

\* the observed call dropped the frame with one diagnostic, a warning
DroppedWithWarning ==
    /\ NoRouting
    /\ Made("BLog") = 1
    /\ The("BLog").level = BLOG_WARNING

\* every relay submission of the observed call comes from a relay-capable
\* receiving peer that the frame names as its source
SubmissionsWithinPolicy ==
    \A i \in 1..Made("DPRelayRouter_SubmitFrame") :
        /\ peers[ReceivingPeer].is_relay_client = 1
        /\ WireFrom(call.packet) = peers[ReceivingPeer].peer_id
        /\ Calls("DPRelayRouter_SubmitFrame")[i].relay_source = ReceivingPeer

\* C11 as claimed: every relay submission satisfies both policy conditions
\* and has the receiving peer as its relay source, and a frame to be relayed
\* that fails either condition is dropped with a warning, nothing submitted.
C11_PolicyFailureWarned ==
    /\ call.active => SubmissionsWithinPolicy
    /\ (RelayCandidate /\ FailsRelayPolicy) => DroppedWithWarning

\* C11 (amended): every relay submission satisfies both policy conditions and
\* has the receiving peer as its relay source; a frame to be relayed whose
\* source id is registered and that fails either condition is dropped with
\* one of the two policy warnings, nothing submitted; one whose source id is
\* not registered is dropped with the informational "source peer not known".
C11_RelayPolicy ==
    /\ call.active => SubmissionsWithinPolicy
    /\ (RelayCandidate /\ FailsRelayPolicy) =>
          IF Registered(WireFrom(call.packet)) = {}
          THEN /\ NoRouting
               /\ Made("BLog") = 1
               /\ The("BLog") = BLog(BLOG_INFO, "source peer not known")
          ELSE /\ DroppedWithWarning
               /\ The("BLog").msg =
                     IF peers[ReceivingPeer].is_relay_client = 0
                     THEN "relaying not allowed"
                     ELSE "relay source must be the sending peer"

\* a relay-capable peer sent a frame naming another registered peer as its
\* source, and the frame was dropped with the warning
C11_Witness ==
    /\ RelayCandidate
    /\ peers[ReceivingPeer].is_relay_client = 1
    /\ Resolves(WireFrom(call.packet)) \notin {NULL, ReceivingPeer}
    /\ WireFrom(call.packet) # peers[ReceivingPeer].peer_id
    /\ DroppedWithWarning
    /\ The("BLog").msg = "relay source must be the sending peer"

\* the sink notification a well-formed frame causes on the receiving peer
ExpectedSinkNotification ==
    IF peers[ReceivingPeer].dp_sink = NULL THEN <<>>
    ELSE <<DataProtoSink_Received(peers[ReceivingPeer].dp_sink,
               IF call.packet.flags % 2 = 1 THEN 1 ELSE 0)>>

\* C12: on a well-formed frame with no destination the handler looks up no
\* peer, calls neither the analyzer nor the output callback nor the relay
\* router, and logs nothing: it only notifies the receiving peer's sink, if
\* one is attached, and releases the slot, whatever the source id, the
\* registry and the device's own id are.
C12_NoDestinationNoRouting ==
    (call.active /\ WellFormed(call.packet) /\ WireCount(call.packet) = 0) =>
        /\ Made("find_peer") = 0
        /\ Made("FrameDeciderPeer_Analyze") = 0
        /\ Made("output_func") = 0
        /\ Made("DPRelayRouter_SubmitFrame") = 0
        /\ call.events = ExpectedSinkNotification \o <<PacketPassInterface_Done(call.o)>>

\* a frame with no destination, from a registered source id, arrived at a
\* peer with a sink while the device had its own id and two peers registered
C12_Witness ==
    /\ call.active
    /\ WellFormed(call.packet)
    /\ WireCount(call.packet) = 0
    /\ Registered(WireFrom(call.packet)) # {}
    /\ device.have_peer_id = 1
    /\ Len(peers_list) = 2
    /\ peers[ReceivingPeer].dp_sink # NULL
    /\ Len(call.events) = 2

\* C13: a call of the receive handler, whatever the frame and its outcome,
\* and its return, leave the device, the peers, the registry and the
\* receivers as they were: the registry membership and order, every peer's
\* id, relay flag and sink, the device's own id and MTUs, the live receivers.
C13_FrameLeavesStateUnchanged ==
    [][ (call' # call) =>
            /\ device' = device
            /\ peers' = peers
            /\ peers_list' = peers_list
            /\ receivers' = receivers ]_vars

\* a frame was dropped for a policy violation while the device had its own
\* id, the receiving peer a sink and the registry two peers
C13_Witness ==
    /\ call.active
    /\ Made("BLog") = 1
    /\ The("BLog").level = BLOG_WARNING
    /\ Made("find_peer") >= 1
    /\ device.have_peer_id = 1
    /\ peers[ReceivingPeer].dp_sink # NULL
    /\ Len(peers_list) = 2

\* the sink of a live peer changes only from none to a sink (attach) or from
\* a sink to none (detach), and a peer that is initialised has none
SinkStep(p) ==
    /\ (peers[p].live /\ peers'[p].live /\ peers'[p].dp_sink # peers[p].dp_sink) =>
           (peers[p].dp_sink = NULL) # (peers'[p].dp_sink = NULL)
    /\ (~peers[p].live /\ peers'[p].live) => peers'[p].dp_sink = NULL

\* every sink notification of the observed call went to the sink the
\* receiving peer has now
NotifiedSinkIsAttached ==
    \A i \in 1..Made("DataProtoSink_Received") :
        /\ peers[ReceivingPeer].dp_sink # NULL
        /\ Calls("DataProtoSink_Received")[i].sink = peers[ReceivingPeer].dp_sink

\* C14: for each peer attach and detach alternate, starting with attach: a
\* new peer has no sink, a sink is attached only to a peer that has none and
\* detached only from a peer that has one, so a peer never has more than one;
\* and a frame's reception is notified only to the sink attached at the time
\* of the call.
C14_SinkAttachDetachAlternate ==
    /\ [][\A p \in PeerSlots : SinkStep(p)]_vars
    /\ [](\A p \in PeerSlots : peers[p].dp_sink \in Sinks \cup {NULL})
    /\ [](\A p \in PeerSlots : ~peers[p].live => peers[p].dp_sink = NULL)
    /\ [](call.active => NotifiedSinkIsAttached)

\* a peer that has the second sink is notified of a frame on it while the
\* other peer has the first
C14_Witness ==
    /\ call.active
    /\ Made("DataProtoSink_Received") = 1
    /\ The("DataProtoSink_Received").sink = 2
    /\ peers[ReceivingPeer].dp_sink = 2
    /\ \E p \in PeerSlots : p # ReceivingPeer /\ peers[p].dp_sink = 1

\* the number of slots of the registry that hold peer p
SlotsOf(p) == Cardinality({i \in 1..Len(peers_list) : peers_list[i] = p})

\* the receivers initialised on peer p and not yet freed
ReceiversOf(p) == {r \in RecvSlots : receivers[r] = p}

\* a peer is in the registry, once, exactly while it is initialised, and its
\* counter is the number of its live receivers
LifecycleInvariant ==
    \A p \in PeerSlots :
        /\ SlotsOf(p) = (IF peers[p].live THEN 1 ELSE 0)
        /\ peers[p].d_receivers_ctr = Cardinality(ReceiversOf(p))
        /\ peers[p].live => device.alive

\* a peer is freed only without sink and without live receivers, and the
\* device only with an empty registry
DestroyStep ==
    /\ \A p \in PeerSlots :
          (peers[p].live /\ ~peers'[p].live) =>
              /\ peers[p].dp_sink = NULL
              /\ peers[p].d_receivers_ctr = 0
              /\ ReceiversOf(p) = {}
    /\ (device.alive /\ ~device'.alive) => peers_list = <<>>

\* C15: over the construct and destroy operations the assertions permit, a
\* peer is in the registry, in one slot, exactly from DPReceivePeer_Init to
\* DPReceivePeer_Free; its live-receiver count is the number of receivers
\* initialised on it and not yet freed; a peer is destroyed only with no sink
\* and a count of zero; the device is destroyed only with an empty registry.
C15_LifecycleInvariants ==
    /\ []LifecycleInvariant
    /\ [][DestroyStep]_vars

\* two peers are registered, each in one slot, one with a live receiver and
\* the other with a sink attached
C15_Witness ==
    /\ Len(peers_list) = 2
    /\ peers_list = <<2, 1>>
    /\ peers[1].d_receivers_ctr = 1
    /\ peers[2].dp_sink # NULL
    /\ receivers[1] = 1

\* the ids a frame can name
LookupIds == {WireValue(b) : b \in WireIds}

\* find_peer returns a peer carrying the id when one is registered, and
\* none otherwise
FindPeerIffRegistered ==
    \A id \in LookupIds :
        IF Registered(id) = {} THEN find_peer(id) = NULL
        ELSE find_peer(id) \in Registered(id)

\* the observed frame has one destination other than the device's id and
\* comes from a relay-capable peer under that peer's id
RelayEligible ==
    /\ call.active
    /\ WellFormed(call.packet)
    /\ WireCount(call.packet) = 1
    /\ peers[ReceivingPeer].is_relay_client = 1
    /\ Resolves(WireFrom(call.packet)) = ReceivingPeer
    /\ ~IsSelfId(WireDest(call.packet))
    /\ ~IsSelfId(to_id_of(call.packet))

\* a frame naming an unregistered peer is dropped as unknown, and one naming
\* registered peers (the destination not the sender) is relayed
NamedPeersDecideRouting ==
    /\ (call.active /\ WellFormed(call.packet) /\ WireCount(call.packet) = 1
           /\ Registered(WireFrom(call.packet)) = {}) =>
          /\ NoRouting
          /\ The("BLog") = BLog(BLOG_INFO, "source peer not known")
    /\ RelayEligible =>
          IF Registered(WireDest(call.packet)) = {}
          THEN /\ NoRouting
               /\ The("BLog") = BLog(BLOG_INFO, "relay destination peer not known")
          ELSE ReceivingPeer \notin Registered(WireDest(call.packet)) =>
                  /\ Made("DPRelayRouter_SubmitFrame") = 1
                  /\ The("DPRelayRouter_SubmitFrame").relay_sink
                         \in Registered(WireDest(call.packet))

\* C16: find_peer(id) returns a peer exactly when a peer with that id is
\* registered; so a frame naming as source or destination an id that is not
\* registered (any more) is dropped as unknown, and one naming registered
\* peers is routed.
C16_RegistryLookup ==
    /\ FindPeerIffRegistered
    /\ NamedPeersDecideRouting

\* C16, lookup only: on every build find_peer returns a peer exactly when a
\* peer with the id is registered, and every lookup the handler makes
\* returned such a peer or none.
C16_FindPeerIffRegistered ==
    /\ FindPeerIffRegistered
    /\ call.active =>
          \A i \in 1..Made("find_peer") :
              Calls("find_peer")[i].peer = find_peer(Calls("find_peer")[i].id)

\* C16 on a little-endian host: the lookups decide the routing as claimed.
C16_RegistryLookupLittleEndian ==
    ~big_endian => (FindPeerIffRegistered /\ NamedPeersDecideRouting)

\* C17: one call of the receive handler delivers the frame to the output
\* callback at most once, submits it to the relay router at most once, and
\* never does both.
C17_DeliveredOrRelayedNotBoth ==
    call.active =>
        /\ Made("output_func") <= 1
        /\ Made("DPRelayRouter_SubmitFrame") <= 1
        /\ Made("output_func") + Made("DPRelayRouter_SubmitFrame") <= 1

\* a frame was relayed, and not delivered, by a device that has its own id
\* and whose receiving peer has a sink
C17_Witness ==
    /\ call.active
    /\ Made("DPRelayRouter_SubmitFrame") = 1
    /\ Made("output_func") = 0
    /\ device.have_peer_id = 1
    /\ Made("DataProtoSink_Received") = 1

\* the diagnostics of the relay branch
RelayDiagnostics ==
    {"relaying not allowed", "relay source must be the sending peer",
     "relay destination peer not known", "relay destination cannot be the source"}

\* the observed call went through the relay branch: it submitted the frame
\* or dropped it with a diagnostic of that branch
TookRelayPath ==
    \/ Made("DPRelayRouter_SubmitFrame") = 1
    \/ Made("BLog") = 1 /\ The("BLog").msg \in RelayDiagnostics

\* the observed call treated the frame as being for the device
TreatedAsLocal == Made("output_func") >= 1 \/ Made("FrameDeciderPeer_Analyze") >= 1

\* while the device has no id of its own nothing is delivered or analysed
\* and a frame with one destination and a known source goes the relay way
UnconfiguredNeverLocal ==
    (call.active /\ device.have_peer_id = 0) =>
        /\ ~TreatedAsLocal
        /\ RoutedFrame => TookRelayPath

\* a device that has an id keeps having one, and SetPeerID is what sets it
StaysConfigured ==
    (device.alive /\ device'.alive /\ device.have_peer_id = 1) =>
        device'.have_peer_id = 1

\* C18: a frame is treated as being for the device only if the device has an
\* id of its own and the frame's destination id equals it; until the first
\* DPReceiveDevice_SetPeerID nothing is delivered or analysed and every frame
\* with one destination and a known source takes the relay path; afterwards
\* the device stays configured.
C18_LocalOnlyForSelfId ==
    /\ [](call.active => (TreatedAsLocal => IsSelfId(WireDest(call.packet))))
    /\ []UnconfiguredNeverLocal
    /\ [][StaysConfigured]_vars

\* C18 with the destination id as the handler reads it: on every build a
\* frame is treated as being for the device only if the device has an id and
\* the id read equals the one set last, and never before an id is set.
C18_LocalOnlyForIdRead ==
    /\ [](call.active => (TreatedAsLocal => IsSelfId(to_id_of(call.packet))))
    /\ []UnconfiguredNeverLocal
    /\ [][StaysConfigured]_vars

\* C18 on a little-endian host.
C18_LocalOnlyForSelfIdLittleEndian ==
    [](~big_endian =>
          (call.active => (TreatedAsLocal => IsSelfId(WireDest(call.packet)))))

\* a peer that is initialised is appended to the registry, whatever ids the
\* registry holds already
InitAppends ==
    \A p \in PeerSlots :
        (~peers[p].live /\ peers'[p].live) => peers_list' = Append(peers_list, p)

\* the receiving peer of the observed call is relay-capable and carries an
\* id that a peer registered before it carries too
LaterDuplicateReceives ==
    /\ call.active
    /\ peers[ReceivingPeer].is_relay_client = 1
    /\ Resolves(peers[ReceivingPeer].peer_id) # ReceivingPeer

\* C19: the registry does not enforce distinct ids: DPReceivePeer_Init with
\* an id already registered adds a second entry; a lookup by an id returns
\* the earliest-registered peer still present that carries it; so a
\* relay-capable peer registered later under an id already present, sending a
\* frame for another peer under its own id, has the frame dropped with
\* "relay source must be the sending peer".
C19_DuplicateIdsResolveToEarliest ==
    /\ [][InitAppends]_vars
    /\ [](\A id \in LookupIds : find_peer(id) = Resolves(id))
    /\ []( ( /\ LaterDuplicateReceives
             /\ RelayCandidate
             /\ WireFrom(call.packet) = peers[ReceivingPeer].peer_id )
           => /\ NoRouting
              /\ Made("BLog") = 1
              /\ The("BLog") =
                    BLog(BLOG_WARNING, "relay source must be the sending peer") )

\* two peers carry one id, and the later one, relay-capable, had a frame
\* under that id dropped
C19_Witness ==
    /\ LaterDuplicateReceives
    /\ RelayCandidate
    /\ WireFrom(call.packet) = peers[ReceivingPeer].peer_id
    /\ Cardinality(Registered(WireFrom(call.packet))) = 2
    /\ Made("BLog") = 1
    /\ The("BLog").msg = "relay source must be the sending peer"

\* the observed frame was delivered and analysed on the handle of the peer
\* its source id resolves to
DeliveredOnSourceHandle ==
    /\ DeliveredLocally
    /\ The("FrameDeciderPeer_Analyze").decider_peer
           = peers[Resolves(WireFrom(call.packet))].decider_peer

\* C20: a well-formed frame with one destination, addressed to the device's
\* own id, whose source id names a registered peer, is delivered to the
\* output callback whether or not the receiving peer may relay and whether
\* or not the source id is the receiving peer's, and is analysed on the
\* handle of the peer the source id names.
C20_LocalDeliveryUnconditional ==
    (RoutedFrame /\ IsSelfId(WireDest(call.packet))) => DeliveredOnSourceHandle

\* C20 with the destination id as the handler reads it, on every build.
C20_LocalDeliveryOfIdRead ==
    (RoutedFrame /\ IsSelfId(to_id_of(call.packet))) => DeliveredOnSourceHandle

\* C20 on a little-endian host.
C20_LocalDeliveryUnconditionalLittleEndian ==
    (~big_endian /\ RoutedFrame /\ IsSelfId(WireDest(call.packet)))
        => DeliveredOnSourceHandle

\* a state that is reached: on a little-endian host a peer that may not relay
\* received a frame for the device under another peer's id, and the frame
\* was delivered
C20_DeliveredFromOtherPeer ==
    /\ ~big_endian
    /\ RoutedFrame
    /\ IsSelfId(WireDest(call.packet))
    /\ peers[ReceivingPeer].is_relay_client = 0
    /\ Resolves(WireFrom(call.packet)) # ReceivingPeer
    /\ DeliveredOnSourceHandle

(* -------------------- claims on the backend module -------------------- *)

\* C21: after any sequence of output lines (trying with or without BSSID,
\* connected, disconnected, others) an instance that is up has connection
\* info, so whenever the framework holds it to be up, up = 1 and
\* have_info = 1, and the assertions of func_getvar hold when it is called.
C21_UpHasInfo ==
    /\ inst.allocated =>
          /\ inst.up = 1 => inst.have_info = 1
          /\ ReportedUp => (inst.up = 1 /\ inst.have_info = 1)
    /\ pipe_call.fn = "func_getvar" => pipe_call.asserts_hold

\* the BSSID was asked of an instance that is up, after an unexpected event
\* made it request the termination of the process
C21_Witness ==
    /\ pipe_call.fn = "func_getvar"
    /\ pipe_call.arg = "bssid"
    /\ pipe_call.out = SomeBssid
    /\ inst.up = 1
    /\ inst.process.terminate_requested

\* the Up and Down notifications sent so far, in order
UpDowns ==
    SelectSeq(backend, LAMBDA c : c.type \in {"NCDModuleInst_Backend_Up",
                                               "NCDModuleInst_Backend_Down"})

\* the Up and Down notifications the most recent callback sent
UpDownsOfCall ==
    SelectSeq(pipe_call.calls, LAMBDA c : c.type \in {"NCDModuleInst_Backend_Up",
                                                       "NCDModuleInst_Backend_Down"})

\* C22: the Up and Down notifications alternate, starting with Up; an Up is
\* sent only by the handler of a connected event printed after a trying event
\* with no disconnected event in between; and a callback that runs after
\* func_die sends neither Up nor Down, whatever line it is given.
C22_UpDownAlternate ==
    /\ \A i \in 1..Len(UpDowns) :
          UpDowns[i].type = IF i % 2 = 1 THEN "NCDModuleInst_Backend_Up"
                            ELSE "NCDModuleInst_Backend_Down"
    /\ pipe_call.fn # "none" =>
          /\ (\E i \in 1..Len(pipe_call.calls) :
                  pipe_call.calls[i].type = "NCDModuleInst_Backend_Up") =>
                /\ pipe_call.fn = "process_pipe_handler_send"
                /\ IsConnected(pipe_call.arg)
                /\ tried
          /\ (pipe_call.before.allocated /\ pipe_call.before.dying = 1) =>
                UpDownsOfCall = <<>>

\* after Up, Down and func_die, with the info of a new trying event stored,
\* a connected event was printed and no Up was sent
C22_Witness ==
    /\ pipe_call.fn = "process_pipe_handler_send"
    /\ IsConnected(pipe_call.arg)
    /\ pipe_call.before.dying = 1
    /\ pipe_call.before.up = 0
    /\ pipe_call.before.have_info = 1
    /\ tried
    /\ Len(UpDowns) = 2

\* the line is an unexpected event for the instance: a trying event while up,
\* or a connected event while up or without connection info
Unexpected(o, data) ==
    \/ IsTrying(data) /\ o.up = 1
    \/ IsConnected(data) /\ (o.up = 1 \/ o.have_info = 0)

\* the most recent callback was the line handler, given an unexpected event
LastWasUnexpected ==
    /\ pipe_call.fn = "process_pipe_handler_send"
    /\ Unexpected(pipe_call.before, pipe_call.arg)

\* how many calls of one type a sequence of calls holds
CountOf(calls, type) == Len(SelectSeq(calls, LAMBDA c : c.type = type))

\* the up flag and the stored connection info are as the callback found them
UpAndInfoUnchanged ==
    /\ inst.up = pipe_call.before.up
    /\ inst.have_info = pipe_call.before.have_info
    /\ inst.info_have_bssid = pipe_call.before.info_have_bssid
    /\ inst.info_bssid = pipe_call.before.info_bssid
    /\ inst.info_ssid = pipe_call.before.info_ssid

\* when the process terminates the instance is reported in error exactly if
\* func_die had not been called, and dead; it is never reported dead twice
TerminationReported ==
    /\ pipe_call.fn = "process_handler_terminated" =>
          /\ CountOf(pipe_call.calls, "NCDModuleInst_Backend_SetError")
                = (IF pipe_call.before.dying = 0 THEN 1 ELSE 0)
          /\ CountOf(pipe_call.calls, "NCDModuleInst_Backend_Dead") = 1
          /\ inst = NoInstance
    /\ CountOf(backend, "NCDModuleInst_Backend_Dead") <= 1
    /\ inst.allocated => CountOf(backend, "NCDModuleInst_Backend_Dead") = 0

\* C23 as claimed: the handler of an unexpected event requests the
\* termination of the process and leaves the up flag and the stored info
\* unchanged; when the process terminates the instance is reported in error
\* exactly if func_die had not been called, and dead exactly once.
C23_UnexpectedEventTerminates ==
    /\ LastWasUnexpected =>
          /\ CountOf(pipe_call.calls, "BInputProcess_Terminate") = 1
          /\ UpAndInfoUnchanged
    /\ TerminationReported

\* C23 (amended): the handler of an unexpected event printed before func_die
\* requests the termination of the process; one printed after func_die is
\* only accepted, the termination having been requested by func_die; either
\* way the up flag and the stored info are unchanged.  When the process
\* terminates the instance is reported in error exactly if func_die had not
\* been called, and dead exactly once.
C23_UnexpectedEventUnlessDying ==
    /\ LastWasUnexpected =>
          /\ IF pipe_call.before.dying = 0
             THEN CountOf(pipe_call.calls, "BInputProcess_Terminate") = 1
             ELSE pipe_call.calls = <<PacketPassInterface_Done("pipe_input")>>
          /\ inst.process.terminate_requested
          /\ UpAndInfoUnchanged
    /\ TerminationReported

\* a trying event was printed while the instance was up and func_die had not
\* been called: termination was requested and the instance is still up
C23_Witness ==
    /\ LastWasUnexpected
    /\ IsTrying(pipe_call.arg)
    /\ pipe_call.before.dying = 0
    /\ pipe_call.before.up = 1
    /\ CountOf(pipe_call.calls, "BInputProcess_Terminate") = 1
    /\ inst.up = 1
    /\ inst.have_info = 1

====
